---- MODULE Spec2Model ----
(***************************************************************************)
(* Devedor360 v2 collection engine (sn3fru/baixa-pdpj).                    *)
(*                                                                         *)
(* These state machines share this module:                                 *)
(*   Spec / FairSpec  PDPJClient.get called by several threads             *)
(*                    (src/api_client.py): token rotation, the 429 gate,   *)
(*                    retries and back-off.                                *)
(*   PagerSpec        PDPJClient.buscar_por_documento and buscar_por_nome  *)
(*                    with their page checkpoints, run and re-run on one   *)
(*                    directory.                                           *)
(*   PoolSpec         _processar_individuo: the three searches merged in   *)
(*                    one pool, then priorizar_processos and the limits;   *)
(*                    the blacklist check before them and the enqueueing   *)
(*                    after.                                               *)
(*   BuscaDocSpec     the document search of one row run page by page      *)
(*                    through the pager, its result merged into the pool   *)
(*                    or its exception caught by _busca_doc.               *)
(*   ColetaSpec       ColetaUnificada: the entity loop enqueuing detail    *)
(*                    downloads, the workers, the CacheManager sets and    *)
(*                    their flush by save_all.                             *)
(*   ExecutarSpec /   ColetaSpec entered through executar, on an empty     *)
(*   ExecutarFairSpec output directory.                                    *)
(* Each specification moves its own variables and leaves the others at     *)
(* their initial value.                                                    *)
(***************************************************************************)
EXTENDS Integers, Sequences, FiniteSets, TLC

\* ------------------------------------------------------------------ bounds
\* Size K of the token pool (PDPJClient.tokens).
NumTokens == 2
\* Attempt budget of get(): the constructor's max_retries parameter.
max_retries == 3

\* Threads calling get() on one shared client.
Threads == {1, 2}

\* ------------------------------------------------- PDPJClient: the state
VARIABLES
    pc,               \* per thread: where it is inside get()
    attempt,          \* per thread: the loop variable of get()
    resp,             \* per thread: status of the response of the attempt
                      \*   under way, 0 while it has none
    last_exc,         \* per thread: 0 for None, else the attempt (1-based)
                      \*   whose ConnectionError/Timeout it holds
    timedOut,         \* per thread: the gate wait before the request about to
                      \*   be sent ended by its timeout
    token_idx,        \* PDPJClient._token_idx
    global_429_lock,  \* PDPJClient._global_429_lock: TRUE is set (gate open)
    stats,            \* PDPJClient._stats
    selected          \* token indices handed out, in the order _lock was taken

clientVars == <<pc, attempt, resp, last_exc, timedOut, token_idx,
                global_429_lock, stats, selected>>

\* What requests.get can give: a response status, or ConnErr for
\* requests.ConnectionError / requests.Timeout.
ConnErr == "ConnErr"
Statuses == {200, 404, 400, 429, 503}
Outcomes == [kind : {"resp"}, status : Statuses]
               \cup {[kind |-> ConnErr, status |-> 0]}

is_429(status) == status = 429

is_transient_treat_404(status) == status \in {500, 502, 503, 504, 404}

is_transient(status) == status \in {500, 502, 503, 504}

ClientInit ==
    /\ pc = [t \in Threads |-> "idle"]
    /\ attempt = [t \in Threads |-> 0]
    /\ resp = [t \in Threads |-> 0]
    /\ last_exc = [t \in Threads |-> 0]
    /\ timedOut = [t \in Threads |-> FALSE]
    /\ token_idx = 0
    /\ global_429_lock = TRUE
    /\ stats = [requests |-> 0, retries |-> 0, errors_429 |-> 0,
                errors_other |-> 0]
    /\ selected = << >>

\* ------------------------------------------------ PDPJClient: operations

token_at(idx) == idx % NumTokens

next_token_idx_stuck(idx) == idx

next_token_idx(idx) == idx + 1

\* get() is entered: last_exc = None, the loop starts at attempt 0.
GetEnter(t) ==
    /\ pc[t] = "idle"
    /\ pc' = [pc EXCEPT ![t] = "wait"]
    /\ attempt' = [attempt EXCEPT ![t] = 0]
    /\ last_exc' = [last_exc EXCEPT ![t] = 0]
    /\ UNCHANGED <<resp, timedOut, token_idx, global_429_lock, stats, selected>>

\* self._global_429_lock.wait(timeout=120): returns when the event is set,
\* or after the timeout with the event still clear.
GateWait(t) ==
    /\ pc[t] = "wait"
    /\ \/ global_429_lock /\ timedOut' = [timedOut EXCEPT ![t] = FALSE]
       \/ ~global_429_lock /\ timedOut' = [timedOut EXCEPT ![t] = TRUE]
    /\ pc' = [pc EXCEPT ![t] = "count"]
    /\ UNCHANGED <<attempt, resp, last_exc, token_idx,
                   global_429_lock, stats, selected>>

\* with self._lock: self._stats["requests"] += 1
CountRequest(t) ==
    /\ pc[t] = "count"
    /\ stats' = [stats EXCEPT !.requests = @ + 1]
    /\ pc' = [pc EXCEPT ![t] = "headers"]
    /\ UNCHANGED <<attempt, resp, last_exc, timedOut, token_idx,
                   global_429_lock, selected>>

\* headers = self._headers(token): every caller of get() in the repository
\* passes no token, so _next_token() runs, under _lock.
Headers(t) ==
    /\ pc[t] = "headers"
    /\ selected' = Append(selected, token_at(token_idx))
    /\ token_idx' = next_token_idx(token_idx)
    /\ pc' = [pc EXCEPT ![t] = "send"]
    /\ UNCHANGED <<attempt, resp, last_exc, timedOut,
                   global_429_lock, stats>>

\* requests.get(...) puts the request on the wire.
SendRequest(t) ==
    /\ pc[t] = "send"
    /\ pc' = [pc EXCEPT ![t] = "inflight"]
    /\ timedOut' = [timedOut EXCEPT ![t] = FALSE]
    /\ UNCHANGED <<attempt, resp, last_exc, token_idx,
                   global_429_lock, stats, selected>>

\* requests.get(...) returns a response or raises; get() branches on it.
Receive(t) ==
    /\ pc[t] = "inflight"
    /\ \E o \in Outcomes :
         IF o.kind = ConnErr
         THEN /\ last_exc' = [last_exc EXCEPT ![t] = attempt[t] + 1]
              /\ pc' = [pc EXCEPT ![t] = "statconn"]
              /\ UNCHANGED resp
         ELSE /\ resp' = [resp EXCEPT ![t] = o.status]
              /\ pc' = [pc EXCEPT ![t] =
                           IF is_429(o.status) THEN "stat429"
                           ELSE IF is_transient(o.status) THEN "stat5xx"
                           ELSE "returned"]
              /\ UNCHANGED last_exc
    /\ UNCHANGED <<attempt, timedOut, token_idx, global_429_lock,
                   stats, selected>>

\* with self._lock: self._stats["errors_429"] += 1
Stat429(t) ==
    /\ pc[t] = "stat429"
    /\ stats' = [stats EXCEPT !.errors_429 = @ + 1]
    /\ pc' = [pc EXCEPT ![t] = "clear"]
    /\ UNCHANGED <<attempt, resp, last_exc, timedOut, token_idx,
                   global_429_lock, selected>>

\* self._global_429_lock.clear(), then time.sleep(wait) begins.
Clear429(t) ==
    /\ pc[t] = "clear"
    /\ global_429_lock' = FALSE
    /\ pc' = [pc EXCEPT ![t] = "sleep429"]
    /\ UNCHANGED <<attempt, resp, last_exc, timedOut, token_idx,
                   stats, selected>>

\* time.sleep(wait) of the 429 branch returns.
Sleep429(t) ==
    /\ pc[t] = "sleep429"
    /\ pc' = [pc EXCEPT ![t] = "set"]
    /\ UNCHANGED <<attempt, resp, last_exc, timedOut, token_idx,
                   global_429_lock, stats, selected>>

\* The loop goes to its next iteration, or falls out of range(max_retries)
\* into the raise of the terminal ConnectionError.
after_attempt(a) == IF a + 1 < max_retries THEN "wait" ELSE "failed"

reopen_missing(g) == g

reopen(g) == TRUE

\* self._global_429_lock.set(); continue
Set429(t) ==
    /\ pc[t] = "set"
    /\ global_429_lock' = reopen(global_429_lock)
    /\ attempt' = [attempt EXCEPT ![t] = @ + 1]
    /\ pc' = [pc EXCEPT ![t] = after_attempt(attempt[t])]
    /\ resp' = [resp EXCEPT ![t] = 0]
    /\ UNCHANGED <<last_exc, timedOut, token_idx, stats, selected>>

\* with self._lock: self._stats["retries"] += 1
Stat5xx(t) ==
    /\ pc[t] = "stat5xx"
    /\ stats' = [stats EXCEPT !.retries = @ + 1]
    /\ pc' = [pc EXCEPT ![t] = "sleep"]
    /\ UNCHANGED <<attempt, resp, last_exc, timedOut, token_idx,
                   global_429_lock, selected>>

\* with self._lock: errors_other += 1; retries += 1
StatConn(t) ==
    /\ pc[t] = "statconn"
    /\ stats' = [stats EXCEPT !.errors_other = @ + 1, !.retries = @ + 1]
    /\ pc' = [pc EXCEPT ![t] = "sleep"]
    /\ UNCHANGED <<attempt, resp, last_exc, timedOut, token_idx,
                   global_429_lock, selected>>

\* time.sleep(backoff_base * 2 ** attempt + jitter) returns; next iteration.
Backoff(t) ==
    /\ pc[t] = "sleep"
    /\ attempt' = [attempt EXCEPT ![t] = @ + 1]
    /\ pc' = [pc EXCEPT ![t] = after_attempt(attempt[t])]
    /\ resp' = [resp EXCEPT ![t] = 0]
    /\ UNCHANGED <<last_exc, timedOut, token_idx, global_429_lock, stats,
                   selected>>

\* ---------------------------------------- buscar_por_documento: the state
\* Config.max_paginas_por_caso and Config.max_processos_totais, as passed by
\* ColetaUnificada._busca_doc.
max_paginas == 3
max_processos == 4
PageIdx == 1..max_paginas

VARIABLES
    prun,          \* 0 before any search, 1 for the first search on save_dir,
                   \*   2 for the re-run of the same search on the same save_dir
    server_total,  \* totalRegistros the endpoint reports for the query
    ppc,           \* "idle", "loop", "returned", "raised"
    pagina,        \* local of buscar_por_documento
    all_items,     \* local: items accumulated
    search_after,  \* local: 0 for None
    total_api,     \* local: -1 for None
    gigante,       \* local
    disk,          \* save_dir: page index -> text of page_N.json, << >> if absent
    requested,     \* page indices for which this search called get(), in order
    held,          \* page index -> the data this search held for the page
    orig,          \* page index -> the data held by the search that wrote the
                   \*   page's checkpoint in full
    resume_from,   \* pages 1..resume_from had a loadable checkpoint when the
                   \*   search started
    paginas,       \* "paginas" of the returned dict, 0 while none is returned
    busca,         \* the loop that runs: "por_documento" for the one of
                   \*   buscar_por_documento, "por_nome" for the one
                   \*   buscar_por_nome runs for a name field
    page_status    \* status of the last answer get() gave this search, 0
                   \*   while it gave none

pagerVars == <<prun, server_total, ppc, pagina, all_items, search_after,
               total_api, gigante, disk, requested, held, orig, resume_from,
               paginas, busca, page_status>>

\* The bodies a 200 answer of the search endpoint can carry: totalRegistros,
\* content (process numbers), an explicit searchAfter (0: absent) and the sort
\* key of the last item (0: absent).
Contents == { << >>, <<1>>, <<2, 1>> }
Totals == {2, 6000}
PageBodies(total) ==
    { d \in [totalRegistros : {total}, content : Contents,
             searchAfter : {0, 1}, sort : {0, 1}] :
        d.content = << >> => d.sort = 0 }

NoData == [totalRegistros |-> -1, content |-> << >>, searchAfter |-> 0, sort |-> 0]

\* What get() hands to the pager: a response whose status get() does not
\* retry, or the terminal ConnectionError.
GetReturns == { st \in Statuses : ~is_429(st) /\ ~is_transient(st) }

\* json.dump(data, f): the text of the file, token by token.
to_json(data) ==
    << "{", data.totalRegistros, data.content, data.searchAfter, data.sort, "}" >>

\* json.load(f): the value, or NoData where json.load raises (a text cut short).
from_json(text) ==
    IF Len(text) = 6 /\ text[6] = "}"
    THEN [totalRegistros |-> text[2], content |-> text[3],
          searchAfter |-> text[4], sort |-> text[5]]
    ELSE NoData

load_page_ignores_file(d, k) == NoData

\* _load_page: None when the file is absent or cannot be parsed.
load_page(d, k) ==
    IF d[k] = << >> THEN NoData ELSE from_json(d[k])

\* _save_page: the file after the call, old being the text before it. An
\* exception inside the with block is swallowed: one raised by json.dump
\* leaves the text cut short, one raised by open leaves the file as it was.
save_outcomes(data, old) ==
    { to_json(data), SubSeq(to_json(data), 1, 2), old }

\* _extract_search_after: the explicit cursor, else the last item's sort key.
extract_search_after(data) ==
    IF data.searchAfter # 0 THEN data.searchAfter
    ELSE IF data.content # << >> /\ data.sort # 0 THEN data.sort
    ELSE 0

\* page_k.json is there and holds a whole page.
checkpointed(d, k) == d[k] # << >> /\ from_json(d[k]) # NoData

\* The largest n with pages 1..n all checkpointed.
leading_checkpoints(d) ==
    LET ok == { n \in 0..max_paginas : \A k \in 1..n : checkpointed(d, k) }
    IN  CHOOSE n \in ok : \A m \in ok : m <= n

\* all_items.extend(content) over pages 1..n of those held.
RECURSIVE pages_content(_, _)
pages_content(h, n) ==
    IF n = 0 THEN << >> ELSE pages_content(h, n - 1) \o h[n].content

PagerInit ==
    /\ prun = 0
    /\ ppc = "idle"
    /\ pagina = 1
    /\ all_items = << >>
    /\ search_after = 0
    /\ total_api = -1
    /\ gigante = FALSE
    /\ disk = [k \in PageIdx |-> << >>]
    /\ requested = << >>
    /\ held = [k \in PageIdx |-> NoData]
    /\ orig = [k \in PageIdx |-> NoData]
    /\ server_total = 2
    /\ resume_from = 0
    /\ paginas = 0
    /\ busca = "por_documento"
    /\ page_status = 0

\* ----------------------------------- buscar_por_documento: the operations

\* buscar_por_documento is called: lines 142-146; or buscar_por_nome comes to
\* a name field: lines 213-218. The re-run is the same search again.
SearchStart ==
    /\ ppc # "loop"
    /\ prun \in {0, 1}
    /\ prun' = prun + 1
    /\ busca' \in IF prun = 0 THEN {"por_documento", "por_nome"} ELSE {busca}
    /\ page_status' = 0
    /\ server_total' \in Totals
    /\ held' = [k \in PageIdx |-> NoData]
    /\ ppc' = "loop"
    /\ pagina' = 1
    /\ all_items' = << >>
    /\ search_after' = 0
    /\ total_api' = -1
    /\ gigante' = FALSE
    /\ requested' = << >>
    /\ resume_from' = leading_checkpoints(disk)
    /\ paginas' = 0
    /\ UNCHANGED <<disk, orig>>

page_ends_search_unless_cap(data, items1) ==
    \/ data.content = << >>
    \/ extract_search_after(data) = 0

\* The breaks of lines 174-175, 181-182 and 185-186 (236-237, 243-244 and
\* 246-247 for a name field), for the page data and the items accumulated
\* with it.
page_ends_search(data, items1) ==
    \/ data.content = << >>
    \/ Len(items1) >= max_processos
    \/ extract_search_after(data) = 0

\* Lines 164-189 (235-248 for a name field, which reads no totalRegistros)
\* for the page data held, then the loop test of line 148 (220) and, when the
\* loop ends, the return of lines 191-196 (buscar_por_nome returns no page
\* count).
ProcessPage(data) ==
    LET total1 == IF busca = "por_documento" /\ total_api = -1
                  THEN data.totalRegistros ELSE total_api
        items1 == all_items \o data.content
        sa1 == extract_search_after(data)
        stop == page_ends_search(data, items1)
        pagina1 == IF stop THEN pagina ELSE pagina + 1
        done == stop \/ pagina1 > max_paginas
    IN  /\ total_api' = total1
        /\ gigante' = (gigante \/ (total_api = -1 /\ total1 > 5000))
        /\ all_items' = items1
        /\ search_after' = IF data.content = << >> \/ Len(items1) >= max_processos
                           THEN search_after ELSE sa1
        /\ pagina' = pagina1
        /\ held' = [held EXCEPT ![pagina] = data]
        /\ ppc' = IF done THEN "returned" ELSE "loop"
        /\ paginas' = IF done /\ busca = "por_documento" THEN pagina1 ELSE 0

\* One iteration with the page on disk: lines 153-155.
PageFromCheckpoint ==
    /\ ppc = "loop"
    /\ load_page(disk, pagina) # NoData
    /\ ProcessPage(load_page(disk, pagina))
    /\ UNCHANGED <<prun, server_total, disk, orig, requested, resume_from,
                   busca, page_status>>

\* One iteration with a 200 answer: lines 157-162, then the page is processed.
PageFromApi ==
    /\ ppc = "loop"
    /\ load_page(disk, pagina) = NoData
    /\ requested' = Append(requested, pagina)
    /\ \E data \in PageBodies(server_total) :
         /\ \E text \in save_outcomes(data, disk[pagina]) :
              /\ disk' = [disk EXCEPT ![pagina] = text]
              /\ orig' = [orig EXCEPT ![pagina] =
                              IF text = to_json(data) THEN data ELSE NoData]
         /\ ProcessPage(data)
    /\ page_status' = 200
    /\ UNCHANGED <<prun, server_total, resume_from, busca>>

\* One iteration whose answer is not 200: the break of line 159 and the return.
PageNot200 ==
    /\ ppc = "loop"
    /\ load_page(disk, pagina) = NoData
    /\ requested' = Append(requested, pagina)
    /\ page_status' \in GetReturns \ {200}
    /\ ppc' = "returned"
    /\ paginas' = IF busca = "por_documento" THEN pagina ELSE 0
    /\ UNCHANGED <<prun, server_total, pagina, all_items, search_after,
                   total_api, gigante, disk, held, orig, resume_from, busca>>

\* One iteration in which get() raises its terminal ConnectionError: it leaves
\* buscar_por_documento, which returns nothing.
PageGetRaises ==
    /\ ppc = "loop"
    /\ load_page(disk, pagina) = NoData
    /\ requested' = Append(requested, pagina)
    /\ ppc' = "raised"
    /\ UNCHANGED <<prun, server_total, pagina, all_items, search_after,
                   total_api, gigante, disk, held, orig, resume_from, paginas,
                   busca, page_status>>

\* The dict buscar_por_documento returns, lines 191-196.
return_value ==
    [processos |-> all_items,
     total_api |-> IF total_api \in {-1, 0} THEN Len(all_items) ELSE total_api,
     paginas |-> pagina,
     gigante |-> gigante]

\* The dict buscar_por_documento returns when the page it is at comes back
\* 200 with no content and the given totalRegistros: lines 160-175, 191-196.
return_value_on_empty_page(total) ==
    LET total1 == IF total_api = -1 THEN total ELSE total_api
    IN  [processos |-> all_items,
         total_api |-> IF total1 = 0 THEN Len(all_items) ELSE total1,
         paginas |-> pagina,
         gigante |-> (gigante \/ (total_api = -1 /\ total1 > 5000))]

\* --------------------------------------------- ColetaUnificada: the state
\* Rows of the input spreadsheet.
NumEntities == 2

Entities == 1..NumEntities
\* Process numbers the searches can select.
Procs == {1, 2}
\* Detail-download worker threads (Config.num_workers of them).
Workers == {1, 2}
\* output_subdir of executar_por_processos, as a directory beside the entities'.
PorNumero == 0

VARIABLES
    mode,             \* "executar" or "por_processos": the entry point called
    mpc,              \* where the calling thread is
    ent,              \* executar: the row the loop is at
    todo,             \* numbers the calling thread has still to go through
                      \*   (selecionados, or numeros)
    queue,            \* ColetaUnificada._queue: items <<np_val, directory>>
    unfinished,       \* queue.Queue.unfinished_tasks
    stop,             \* ColetaUnificada._stop
    wpc,              \* per worker: where it is in _worker
    witem,            \* per worker: the item taken from the queue
    wdata,            \* per worker: TRUE when buscar_detalhe_processo gave data
    processos_404,    \* CacheManager.processos_404
    cache_processos,  \* CacheManager.cache_processos: its keys (all map to "ok")
    files,            \* detail files on disk: <<directory, np_val>>
    det_requests,     \* np_val -> detail requests sent to the endpoint
    answered_404,     \* numbers for which the endpoint answered 404
    erros,            \* GlobalStats "erros"
    processados,      \* GlobalStats "processados"
    unicos,           \* how many numbers the processos_unicos.json of the row
                      \*   being processed lists (0 while it is not written)
    flushed_404,      \* what save_all dumped to processos_404.json
    flushed_procs     \* what save_all dumped to cache_processos_completos.json
                      \*   (its keys)

statVars == <<erros, processados, unicos>>

flushVars == <<flushed_404, flushed_procs>>

coletaVars == <<mode, mpc, ent, todo, queue, unfinished, stop, wpc, witem, wdata,
                processos_404, cache_processos, files, det_requests,
                answered_404, statVars, flushVars>>

\* selecionados: the final selection of one entity (no number twice).
Selections == { << >>, <<1>>, <<2>>, <<1, 2>>, <<2, 1>> }
\* numeros: the list given to executar_por_processos.
NumerosLists == { <<1>>, <<2>>, <<1, 1>>, <<1, 2>>, <<2, 1>> }

NoItem == <<0, 0>>

\* Detail files left by an earlier run, here in the first entity's directory.
PreexistingFiles == SUBSET ({1} \X Procs)

\* What one call of buscar_detalhe_processo can meet once it goes to the
\* network: 200 with a document that is written to save_path, 200 with the
\* write raising, 404, another status get() returns, or get() raising.
DetailOutcomes == {"ok", "persist_fails", "404", "other_status", "get_raises"}

\* The dict buscar_detalhe_processo returns is non-empty.
detail_has_data(o) == o = "ok"

\* ColetaUnificada.__init__ with a fresh cache directory.
ColetaConstructed ==
    /\ mpc = "start"
    /\ ent = 1
    /\ todo = << >>
    /\ queue = << >>
    /\ unfinished = 0
    /\ stop = FALSE
    /\ wpc = [w \in Workers |-> "off"]
    /\ witem = [w \in Workers |-> NoItem]
    /\ wdata = [w \in Workers |-> FALSE]
    /\ processos_404 = {}
    /\ cache_processos = {}
    /\ det_requests = [n \in Procs |-> 0]
    /\ answered_404 = {}
    /\ erros = 0
    /\ processados = 0
    /\ unicos = 0
    /\ flushed_404 = {}
    /\ flushed_procs = {}

\* The entry point about to be called and what the output directory holds.
ColetaInit ==
    /\ ColetaConstructed
    /\ mode \in {"executar", "por_processos"}
    /\ files \in PreexistingFiles

\* No run of the orchestrator takes place.
ColetaIdle ==
    /\ ColetaConstructed
    /\ mode = "executar"
    /\ files = {}

\* ---------------------------------------- ColetaUnificada: the operations

\* executar up to the loop over the rows: _start_workers (download_detalhes).
ExecutarStart ==
    /\ mode = "executar" /\ mpc = "start"
    /\ wpc' = [w \in Workers |-> "idle"]
    /\ mpc' = "entity"
    /\ UNCHANGED <<mode, ent, todo, queue, unfinished, stop, witem, wdata,
                   processos_404, cache_processos, files, det_requests,
                   answered_404>>

\* _processar_individuo up to line 253: the searches and the priority selector
\* give selecionados.
EntitySelect ==
    /\ mpc = "entity" /\ ent <= NumEntities
    /\ todo' \in Selections
    /\ unicos' = Len(todo')
    /\ mpc' = "enqueue"
    /\ UNCHANGED <<erros, processados>>
    /\ UNCHANGED <<mode, ent, queue, unfinished, stop, wpc, witem, wdata,
                   processos_404, cache_processos, files, det_requests,
                   answered_404>>

\* One turn of the loop of lines 257-268.
EnqueueItem ==
    /\ mpc = "enqueue" /\ todo # << >>
    /\ LET np_val == Head(todo)
       IN  /\ todo' = Tail(todo)
           /\ IF np_val \in processos_404
              THEN UNCHANGED <<cache_processos, queue, unfinished>>
              ELSE IF <<ent, np_val>> \in files
              THEN /\ cache_processos' = cache_processos \cup {np_val}
                   /\ UNCHANGED <<queue, unfinished>>
              ELSE /\ queue' = Append(queue, <<np_val, ent>>)
                   /\ unfinished' = unfinished + 1
                   /\ UNCHANGED cache_processos
    /\ UNCHANGED <<mode, mpc, ent, stop, wpc, witem, wdata, processos_404,
                   files, det_requests, answered_404>>

\* The for loop of executar: the next row, or queue.join() after the last.
next_row(e) == IF e + 1 > NumEntities THEN "join" ELSE "entity"

\* The rest of _processar_individuo, stats.inc(processados=1) and the loop of
\* executar going on.
EntityDone ==
    /\ mpc = "enqueue" /\ todo = << >>
    /\ ent' = ent + 1
    /\ mpc' = next_row(ent)
    /\ processados' = processados + 1
    /\ unicos' = 0
    /\ UNCHANGED erros
    /\ UNCHANGED <<mode, todo, queue, unfinished, stop, wpc, witem, wdata,
                   processos_404, cache_processos, files, det_requests,
                   answered_404>>

\* _processar_individuo raises before the selection is made (lines 200-234:
\* os.makedirs, the blacklist _save_meta, priorizar_processos); executar
\* catches it: stats.inc(erros=1), log_erro, stats.inc(processados=1).
EntityRaisesEarly ==
    /\ mpc = "entity" /\ ent <= NumEntities
    /\ erros' = erros + 1
    /\ processados' = processados + 1
    /\ ent' = ent + 1
    /\ mpc' = next_row(ent)
    /\ UNCHANGED unicos
    /\ UNCHANGED <<mode, todo, queue, unfinished, stop, wpc, witem, wdata,
                   processos_404, cache_processos, files, det_requests,
                   answered_404>>

\* _processar_individuo raises after processos_unicos.json is written (lines
\* 256-272: os.makedirs, a turn of the enqueue loop, the second _write_json,
\* _save_meta, none of which catches); executar catches it as above and what
\* was put in the queue stays there.
EntityRaisesLate ==
    /\ mpc = "enqueue"
    /\ erros' = erros + 1
    /\ processados' = processados + 1
    /\ ent' = ent + 1
    /\ mpc' = next_row(ent)
    /\ todo' = << >>
    /\ unicos' = 0
    /\ UNCHANGED <<mode, queue, unfinished, stop, wpc, witem, wdata,
                   processos_404, cache_processos, files, det_requests,
                   answered_404>>

join_returns_at_once(u) == TRUE

\* queue.Queue.join blocks until unfinished_tasks is zero.
join_returns(u) == u = 0

\* self._queue.join() returns.
QueueJoin ==
    /\ mpc = "join" /\ join_returns(unfinished)
    /\ mpc' = "stop"
    /\ UNCHANGED <<mode, ent, todo, queue, unfinished, stop, wpc, witem, wdata,
                   processos_404, cache_processos, files, det_requests,
                   answered_404>>

\* self._stop.set()
StopSet ==
    /\ mpc = "stop"
    /\ stop' = TRUE
    /\ mpc' = "join_workers"
    /\ UNCHANGED <<mode, ent, todo, queue, unfinished, wpc, witem, wdata,
                   processos_404, cache_processos, files, det_requests,
                   answered_404>>

\* CacheManager.save_all: _save dumps list(self.processos_404) and
\* self.cache_processos as they are when it runs.
save_all ==
    /\ flushed_404' = processos_404
    /\ flushed_procs' = cache_processos

\* w.join(timeout=10) for each worker (it returns when the worker has ended or
\* after the timeout), self.cache.save_all() and the return of executar.
ExecutarEnd ==
    /\ mpc = "join_workers"
    /\ save_all
    /\ mpc' = "done"
    /\ UNCHANGED <<mode, ent, todo, queue, unfinished, stop, wpc, witem, wdata,
                   processos_404, cache_processos, files, det_requests,
                   answered_404>>

\* _worker: the test of the while loop.
WorkerCheckStop(w) ==
    /\ wpc[w] = "idle"
    /\ wpc' = [wpc EXCEPT ![w] = IF stop THEN "exited" ELSE "get"]
    /\ UNCHANGED <<mode, mpc, ent, todo, queue, unfinished, stop, witem, wdata,
                   processos_404, cache_processos, files, det_requests,
                   answered_404>>

\* self._queue.get(timeout=2) gives an item.
WorkerTake(w) ==
    /\ wpc[w] = "get" /\ queue # << >>
    /\ witem' = [witem EXCEPT ![w] = Head(queue)]
    /\ queue' = Tail(queue)
    /\ wpc' = [wpc EXCEPT ![w] = "fetch"]
    /\ UNCHANGED <<mode, mpc, ent, todo, unfinished, stop, wdata,
                   processos_404, cache_processos, files, det_requests,
                   answered_404>>

\* self._queue.get(timeout=2) raises queue.Empty: continue.
WorkerEmpty(w) ==
    /\ wpc[w] = "get" /\ queue = << >>
    /\ wpc' = [wpc EXCEPT ![w] = "idle"]
    /\ UNCHANGED <<mode, mpc, ent, todo, queue, unfinished, stop, witem, wdata,
                   processos_404, cache_processos, files, det_requests,
                   answered_404>>

\* buscar_detalhe_processo, lines 272-281: the file at save_path is returned
\* if there is one, else the request goes out.
WorkerFetch(w) ==
    /\ wpc[w] = "fetch"
    /\ IF <<witem[w][2], witem[w][1]>> \in files
       THEN /\ wdata' = [wdata EXCEPT ![w] = TRUE]
            /\ wpc' = [wpc EXCEPT ![w] = "mark"]
            /\ UNCHANGED det_requests
       ELSE /\ det_requests' = [det_requests EXCEPT ![witem[w][1]] = @ + 1]
            /\ wpc' = [wpc EXCEPT ![w] = "inflight"]
            /\ UNCHANGED wdata
    /\ UNCHANGED <<mode, mpc, ent, todo, queue, unfinished, stop, witem,
                   processos_404, cache_processos, files, answered_404>>

\* buscar_detalhe_processo, lines 281-295: the answer, and the dict returned.
WorkerAnswer(w) ==
    /\ wpc[w] = "inflight"
    /\ \E o \in DetailOutcomes :
         /\ wdata' = [wdata EXCEPT ![w] = detail_has_data(o)]
         /\ files' = IF o = "ok" THEN files \cup {<<witem[w][2], witem[w][1]>>}
                     ELSE files
         /\ answered_404' = IF o = "404" THEN answered_404 \cup {witem[w][1]}
                            ELSE answered_404
    /\ wpc' = [wpc EXCEPT ![w] = "mark"]
    /\ UNCHANGED <<mode, mpc, ent, todo, queue, unfinished, stop, witem,
                   processos_404, cache_processos, det_requests>>

add_processo_404_replaces(s, proc) == {proc}

\* CacheManager.add_processo_404: self.processos_404.add(proc)
add_processo_404(s, proc) == s \cup {proc}

\* _worker, lines 400-406: add_processo(np_val, "ok") or add_processo_404.
\* (buscar_detalhe_processo catches every exception and the cache and stats
\* calls raise none, so the except branch of lines 407-409 is never entered.)
WorkerMark(w) ==
    /\ wpc[w] = "mark"
    /\ IF wdata[w]
       THEN /\ cache_processos' = cache_processos \cup {witem[w][1]}
            /\ UNCHANGED processos_404
       ELSE /\ processos_404' = add_processo_404(processos_404, witem[w][1])
            /\ UNCHANGED cache_processos
    /\ wpc' = [wpc EXCEPT ![w] = "ack"]
    /\ UNCHANGED <<mode, mpc, ent, todo, queue, unfinished, stop, witem, wdata,
                   files, det_requests, answered_404>>

task_done_missing(u) == u

\* queue.Queue.task_done on unfinished_tasks.
task_done(u) == u - 1

\* finally: self._queue.task_done()
WorkerTaskDone(w) ==
    /\ wpc[w] = "ack"
    /\ unfinished' = task_done(unfinished)
    /\ wpc' = [wpc EXCEPT ![w] = "idle"]
    /\ witem' = [witem EXCEPT ![w] = NoItem]
    /\ UNCHANGED <<mode, mpc, ent, todo, queue, stop, wdata, processos_404,
                   cache_processos, files, det_requests, answered_404>>

\* executar_por_processos is called with a list of numbers.
PorProcessosStart ==
    /\ mode = "por_processos" /\ mpc = "start"
    /\ todo' \in NumerosLists
    /\ mpc' = "numeros"
    /\ UNCHANGED <<mode, ent, queue, unfinished, stop, wpc, witem, wdata,
                   processos_404, cache_processos, files, det_requests,
                   answered_404>>

\* One turn of the loop of lines 172-188 for a number in the not-found set.
PorProcessosSkip ==
    /\ mpc = "numeros" /\ todo # << >>
    /\ Head(todo) \in processos_404
    /\ todo' = Tail(todo)
    /\ UNCHANGED <<mode, mpc, ent, queue, unfinished, stop, wpc, witem, wdata,
                   processos_404, cache_processos, files, det_requests,
                   answered_404>>

\* One turn of the loop of lines 172-188 that calls buscar_detalhe_processo.
PorProcessosFetch ==
    /\ mpc = "numeros" /\ todo # << >>
    /\ Head(todo) \notin processos_404
    /\ LET proc == Head(todo)
       IN  /\ todo' = Tail(todo)
           /\ IF <<PorNumero, proc>> \in files
              THEN /\ cache_processos' = cache_processos \cup {proc}
                   /\ UNCHANGED <<processos_404, files, det_requests,
                                  answered_404>>
              ELSE /\ det_requests' = [det_requests EXCEPT ![proc] = @ + 1]
                   /\ \E o \in DetailOutcomes :
                        /\ files' = IF o = "ok"
                                    THEN files \cup {<<PorNumero, proc>>}
                                    ELSE files
                        /\ answered_404' = IF o = "404"
                                           THEN answered_404 \cup {proc}
                                           ELSE answered_404
                        /\ IF detail_has_data(o)
                           THEN /\ cache_processos' = cache_processos \cup {proc}
                                /\ UNCHANGED processos_404
                           ELSE /\ processos_404' =
                                     add_processo_404(processos_404, proc)
                                /\ UNCHANGED cache_processos
    /\ UNCHANGED <<mode, mpc, ent, queue, unfinished, stop, wpc, witem, wdata>>

\* self.cache.save_all() and the return of executar_por_processos.
PorProcessosEnd ==
    /\ mpc = "numeros" /\ todo = << >>
    /\ save_all
    /\ mpc' = "done"
    /\ UNCHANGED <<mode, ent, todo, queue, unfinished, stop, wpc, witem, wdata,
                   processos_404, cache_processos, files, det_requests,
                   answered_404>>

\* ------------------------------------ _processar_individuo: the searches
\* Config.max_filiais: branches 0002 .. max_filiais + 1 are enumerated.
max_filiais == 1
Filiais == 2..(max_filiais + 1)

VARIABLES
    spc,                   \* where _processar_individuo is: "idle", "check",
                           \*   "doc", "filial", "nome", "priorizar",
                           \*   "enfileira", "done"
    passes,                \* rows gone through so far (those that search are
                           \*   of one CNPJ root)
    doc,                   \* doc of the row: 0 for the empty string, else a
                           \*   valid CNPJ
    catalogo,              \* number -> what the API holds for it
    pool,                  \* local pool, in insertion order: entries
                           \*   [np, item, origens]
    filial_n,              \* loop variable n of _busca_filiais
    filiais_inexistentes,  \* CacheManager.filiais_inexistentes (branch numbers)
    found,                 \* strategy -> numbers its result held, this row
    first_page,            \* branch -> how the first page of its last search
                           \*   came back: "none", "items", "empty", "non200"
    fil_calls,             \* branch -> searches issued for it
    selecionados,          \* local selecionados
    meta,                  \* what metadata.json of the row records: "none"
                           \*   (no file), "blacklist" or "buscas"
    enfileirados,          \* numbers the row put on the detail queue
    lim_cat,               \* local of _aplicar_limites (0 outside it)
    lim_root               \* local of _aplicar_limites (0 outside it)

poolVars == <<spc, passes, doc, catalogo, pool, filial_n, filiais_inexistentes,
              found, first_page, fil_calls, selecionados, meta,
              enfileirados, lim_cat, lim_root>>

\* The origins _busca_doc, _busca_filiais and _busca_nome add.
por_documento == <<"por_documento", 0>>
por_filial(n) == <<"por_filial", n>>
por_nome == <<"por_nome", 0>>
Strategies == {por_documento, por_nome} \cup { por_filial(n) : n \in Filiais }

\* What an item of a search result says of its process: the class code of its
\* tramitacao and the document on its active pole (0: none).
Items == [classe : {1116, 7}, ativo : {0, 1}]

\* The raw item a search delivers for a number: what the API holds for it, as
\* the object that search built from its response.
raw_item(cat, np_val, origem) ==
    [classe |-> cat[np_val].classe, ativo |-> cat[np_val].ativo,
     de |-> origem]

\* res["processos"] of a search, by numeroProcesso (0: an item without one);
\* an item can come on two pages.
ResultLists == { << >>, <<1>>, <<2>>, <<1, 2>>, <<2, 1>>, <<1, 1>>, <<0, 1>> }

\* What buscar_por_documento returns to its caller: the items, and how its
\* first page came back (nothing is accumulated when the first page is empty
\* or its answer is not 200).
DocReturns ==
    { [processos |-> r, first |-> "items"] : r \in ResultLists \ {<< >>} }
        \cup { [processos |-> << >>, first |-> f] : f \in {"empty", "non200"} }

has_key(p, np_val) == \E i \in 1..Len(p) : p[i].np = np_val

setdefault_always_inserts(p, np_val, it) ==
    Append(p, [np |-> np_val, item |-> it, origens |-> {}])

\* pool.setdefault(np_val, {"item": it, "origens": set()})
setdefault(p, np_val, it) ==
    IF has_key(p, np_val) THEN p
    ELSE Append(p, [np |-> np_val, item |-> it, origens |-> {}])

\* pool[np_val]["origens"].add(origem)
add_origem(p, np_val, origem) ==
    [i \in 1..Len(p) |->
        IF p[i].np = np_val THEN [p[i] EXCEPT !.origens = @ \cup {origem}]
        ELSE p[i]]

\* The loop over res["processos"] of _busca_doc, _busca_filiais, _busca_nome.
RECURSIVE merge_pool(_, _, _, _)
merge_pool(p, processos, origem, cat) ==
    IF processos = << >> THEN p
    ELSE LET k == Len(processos)
             np_val == processos[k]
             p0 == merge_pool(p, SubSeq(processos, 1, k - 1), origem, cat)
         IN  IF np_val # 0
             THEN add_origem(setdefault(p0, np_val,
                                        raw_item(cat, np_val, origem)),
                             np_val, origem)
             ELSE p0

\* The numbers among the items of a result.
numbers_of(processos) ==
    { processos[i] : i \in 1..Len(processos) } \ {0}

\* buscar_por_nome, lines 250-259: the items of the two name fields merged,
\* the first item of each number kept, items without a number dropped.
RECURSIVE merge_nome(_, _)
merge_nome(resultados, items) ==
    IF items = << >> THEN resultados
    ELSE LET np_val == Head(items)
             seen == \E i \in 1..Len(resultados) : resultados[i] = np_val
         IN  merge_nome(IF np_val # 0 /\ ~seen THEN Append(resultados, np_val)
                        ELSE resultados,
                        Tail(items))

NomeReturns ==
    { merge_nome(merge_nome(<< >>, a), b) : a, b \in ResultLists }

\* The documents of the rows: none, and three valid CNPJ of different roots.
Docs == {0, 1, 2, 3}

\* Config.blacklist: the default entry "9999", the root of CNPJ 2 and CNPJ 3
\* in full.
blacklist == {9999, 20, 3}

PoolInit ==
    /\ spc = "idle"
    /\ passes = 0
    /\ doc = 0
    /\ catalogo = [n \in Procs |-> [classe |-> 7, ativo |-> 0]]
    /\ pool = << >>
    /\ filial_n = 2
    /\ filiais_inexistentes = {}
    /\ found = [st \in Strategies |-> {}]
    /\ first_page = [n \in Filiais |-> "none"]
    /\ fil_calls = [n \in Filiais |-> 0]
    /\ selecionados = << >>
    /\ meta = "none"
    /\ enfileirados = << >>
    /\ lim_cat = 0
    /\ lim_root = 0

\* ----------------------------- _processar_individuo: the operations
\* utils.identificar_tipo_documento for the documents of the model.
identificar_tipo_documento(d) == IF d = 0 THEN "" ELSE "CNPJ"

\* utils.obter_raiz_cnpj: the first 8 digits of a 14-digit document, else "".
obter_raiz_cnpj(d) == 10 * d

on_blacklist_doc_only(d, bl) == d \in bl

\* Lines 203-205 and the test of line 213.
on_blacklist(d, bl) ==
    LET tipo == identificar_tipo_documento(d)
        raiz == IF tipo = "CNPJ" THEN obter_raiz_cnpj(d) ELSE 0
    IN  raiz \in bl \/ d \in bl

\* _processar_individuo is entered for a row: lines 200-211. The model goes
\* through two rows.
IndStart ==
    /\ spc \in {"idle", "done"}
    /\ passes \in {0, 1}
    /\ passes' = passes + 1
    /\ doc' \in Docs
    /\ catalogo' \in [Procs -> Items]
    /\ pool' = << >>
    /\ found' = [st \in Strategies |-> {}]
    /\ selecionados' = << >>
    /\ filial_n' = 2
    /\ meta' = "none"
    /\ enfileirados' = << >>
    /\ lim_cat' = 0
    /\ lim_root' = 0
    /\ spc' = "check"
    /\ UNCHANGED <<filiais_inexistentes, first_page, fil_calls>>

\* Lines 213-215: the row is on the blacklist; _save_meta records it and
\* _processar_individuo returns.
Blacklisted ==
    /\ spc = "check"
    /\ on_blacklist(doc, blacklist)
    /\ meta' = "blacklist"
    /\ spc' = "done"
    /\ UNCHANGED <<passes, doc, catalogo, pool, filial_n,
                   filiais_inexistentes, found, first_page, fil_calls,
                   selecionados, enfileirados, lim_cat, lim_root>>

\* Lines 213-218: the row is not on the blacklist.
NotBlacklisted ==
    /\ spc = "check"
    /\ ~on_blacklist(doc, blacklist)
    /\ spc' = "doc"
    /\ UNCHANGED <<passes, doc, catalogo, pool, filial_n,
                   filiais_inexistentes, found, first_page, fil_calls,
                   selecionados, meta, enfileirados, lim_cat, lim_root>>

\* (A), lines 221-222 with _busca_doc: the search is not made (the strategy is
\* off, or the row has no valid document), it raises (_busca_doc catches), or
\* its result is merged into the pool.
BuscaDoc ==
    /\ spc = "doc"
    /\ \/ UNCHANGED <<pool, found>>
       \/ /\ doc # 0
          /\ \E res \in DocReturns :
               /\ pool' = merge_pool(pool, res.processos, por_documento,
                                     catalogo)
               /\ found' = [found EXCEPT ![por_documento] =
                                numbers_of(res.processos)]
    /\ spc' = "filial"
    /\ UNCHANGED <<passes, doc, catalogo, filial_n, filiais_inexistentes,
                   first_page, fil_calls, selecionados, meta, enfileirados,
                   lim_cat, lim_root>>

\* qtd == 0 of line 325.
no_process(qtd) == qtd = 0

\* (B), one turn of the loop of _busca_filiais for a branch the cache does not
\* hold as nonexistent: buscar_por_documento returns, lines 318-331.
FilialSearch ==
    /\ spc = "filial" /\ doc # 0 /\ filial_n <= max_filiais + 1
    /\ filial_n \notin filiais_inexistentes
    /\ \E res \in DocReturns :
         /\ first_page' = [first_page EXCEPT ![filial_n] = res.first]
         /\ filiais_inexistentes' =
              IF no_process(Len(res.processos))
              THEN filiais_inexistentes \cup {filial_n}
              ELSE filiais_inexistentes
         /\ pool' = merge_pool(pool, res.processos, por_filial(filial_n),
                               catalogo)
         /\ found' = [found EXCEPT ![por_filial(filial_n)] =
                          numbers_of(res.processos)]
    /\ fil_calls' = [fil_calls EXCEPT ![filial_n] = @ + 1]
    /\ filial_n' = filial_n + 1
    /\ UNCHANGED <<spc, passes, doc, catalogo, selecionados, meta,
                   enfileirados, lim_cat, lim_root>>

\* (B), one turn in which buscar_por_documento raises (get() gave up): the
\* except of line 332.
FilialRaises ==
    /\ spc = "filial" /\ doc # 0 /\ filial_n <= max_filiais + 1
    /\ filial_n \notin filiais_inexistentes
    /\ first_page' = [first_page EXCEPT ![filial_n] = "none"]
    /\ fil_calls' = [fil_calls EXCEPT ![filial_n] = @ + 1]
    /\ filial_n' = filial_n + 1
    /\ UNCHANGED <<spc, passes, doc, catalogo, pool, filiais_inexistentes,
                   found, selecionados, meta, enfileirados, lim_cat, lim_root>>

\* (B), one turn for a branch in the nonexistent set: the continue of line
\* 315. (gerar_cnpj_completo gets the digits of a validated CNPJ and raises
\* nothing.)
FilialSkip ==
    /\ spc = "filial" /\ doc # 0 /\ filial_n <= max_filiais + 1
    /\ filial_n \in filiais_inexistentes
    /\ filial_n' = filial_n + 1
    /\ UNCHANGED <<spc, passes, doc, catalogo, pool, filiais_inexistentes,
                   found, first_page, fil_calls, selecionados, meta,
                   enfileirados, lim_cat, lim_root>>

\* (B) is over: the strategy is off or the row is no CNPJ (line 225), or the
\* loop of _busca_filiais has ended.
FilialEnd ==
    /\ spc = "filial"
    /\ filial_n = 2 \/ filial_n > max_filiais + 1
    /\ spc' = "nome"
    /\ UNCHANGED <<passes, doc, catalogo, pool, filial_n,
                   filiais_inexistentes, found, first_page, fil_calls,
                   selecionados, meta, enfileirados, lim_cat, lim_root>>

\* (C), lines 229-230 with _busca_nome: not made, raising, or merged.
BuscaNome ==
    /\ spc = "nome"
    /\ \/ UNCHANGED <<pool, found>>
       \/ \E processos \in NomeReturns :
            /\ pool' = merge_pool(pool, processos, por_nome, catalogo)
            /\ found' = [found EXCEPT ![por_nome] = numbers_of(processos)]
    /\ spc' = "priorizar"
    /\ UNCHANGED <<passes, doc, catalogo, filial_n, filiais_inexistentes,
                   first_page, fil_calls, selecionados, meta, enfileirados,
                   lim_cat, lim_root>>

\* utils.is_execucao_fiscal: a class with codigo 1116.
is_execucao_fiscal(item) == item.classe = 1116

\* utils.is_polo_ativo: the document is on the active pole.
is_polo_ativo(item, doc_normalizado) == item.ativo = doc_normalizado

tier_of_polo_first(item, doc_normalizado) ==
    IF doc_normalizado # 0 /\ is_polo_ativo(item, doc_normalizado) THEN "pa"
    ELSE IF is_execucao_fiscal(item) THEN "ef"
    ELSE "ou"

\* The branch of priorizar_processos an item takes.
tier_of(item, doc_normalizado) ==
    IF is_execucao_fiscal(item) THEN "ef"
    ELSE IF doc_normalizado # 0 /\ is_polo_ativo(item, doc_normalizado)
    THEN "pa"
    ELSE "ou"

prepend_np(lst, np_val) == <<np_val>> \o lst

\* ef.append(np_val), pa.append(np_val), ou.append(np_val)
append_np(lst, np_val) == Append(lst, np_val)

\* The loop of priorizar_processos for one of its three lists.
RECURSIVE tier_list(_, _, _, _)
tier_list(acc, lista, doc_normalizado, tier) ==
    IF lista = << >> THEN acc
    ELSE LET e == Head(lista)
             acc1 == IF e.np # 0 /\ tier_of(e.item, doc_normalizado) = tier
                     THEN append_np(acc, e.np)
                     ELSE acc
         IN  tier_list(acc1, Tail(lista), doc_normalizado, tier)

\* utils._unique: first occurrences, in order.
RECURSIVE unique(_)
unique(seq) ==
    IF seq = << >> THEN << >>
    ELSE LET r == unique(SubSeq(seq, 1, Len(seq) - 1))
             x == seq[Len(seq)]
         IN  IF \E i \in 1..Len(r) : r[i] = x THEN r ELSE Append(r, x)

priorizar_processos(lista, doc_normalizado) ==
    [ef |-> unique(tier_list(<< >>, lista, doc_normalizado, "ef")),
     pa |-> unique(tier_list(<< >>, lista, doc_normalizado, "pa")),
     ou |-> unique(tier_list(<< >>, lista, doc_normalizado, "ou"))]

\* seq[:lim]
take(seq, lim) == SubSeq(seq, 1, IF lim < Len(seq) THEN lim ELSE Len(seq))

aplicar_limites_after_merge(ef, pa, ou, cat, root) ==
    LET merged == ef \o pa \o ou
        merged1 == IF cat > 0 THEN take(merged, cat) ELSE merged
    IN  IF root > 0 THEN take(merged1, root) ELSE merged1

\* _aplicar_limites: a limit of 0 or less is no limit.
aplicar_limites(ef, pa, ou, cat, root) ==
    LET ef1 == IF cat > 0 THEN take(ef, cat) ELSE ef
        pa1 == IF cat > 0 THEN take(pa, cat) ELSE pa
        ou1 == IF cat > 0 THEN take(ou, cat) ELSE ou
        merged == ef1 \o pa1 \o ou1
    IN  IF root > 0 THEN take(merged, root) ELSE merged

\* Config.max_processos_per_doc and Config.max_processos_per_root.
Limits == {0, 1, 2}

\* Lines 233-235: the priority selector and the caps.
Priorizar ==
    /\ spc = "priorizar"
    /\ lim_cat' \in Limits
    /\ lim_root' \in Limits
    /\ LET t == priorizar_processos(pool, doc)
       IN  selecionados' = aplicar_limites(t.ef, t.pa, t.ou, lim_cat', lim_root')
    /\ spc' = "enfileira"
    /\ UNCHANGED <<passes, doc, catalogo, pool, filial_n,
                   filiais_inexistentes, found, first_page, fil_calls, meta,
                   enfileirados>>

\* The loop of lines 257-268 over a selection: a number goes on the queue
\* unless the not-found set holds it or its detail file is there.
RECURSIVE to_queue(_, _)
to_queue(sel, skipped) ==
    IF sel = << >> THEN << >>
    ELSE IF Head(sel) \in skipped THEN to_queue(Tail(sel), skipped)
    ELSE <<Head(sel)>> \o to_queue(Tail(sel), skipped)

\* Lines 238-276: processos_unicos.json, the detail queue (when
\* Config.download_detalhes is on; the not-found set and the detail files on
\* disk are what they are at that time) and metadata.json.
Enfileira ==
    /\ spc = "enfileira"
    /\ \E download_detalhes \in BOOLEAN, skipped \in SUBSET Procs :
         enfileirados' = IF download_detalhes
                         THEN to_queue(selecionados, skipped)
                         ELSE << >>
    /\ meta' = "buscas"
    /\ lim_cat' = 0
    /\ lim_root' = 0
    /\ spc' = "done"
    /\ UNCHANGED <<passes, doc, catalogo, pool, filial_n,
                   filiais_inexistentes, found, first_page, fil_calls,
                   selecionados>>

\* ------------------------- _busca_doc over buscar_por_documento, page by page
\* _processar_individuo has come to line 221 for a row with a CNPJ that is
\* not on the blacklist, on an output directory with no checkpoint.
RowAtBuscaDoc ==
    /\ spc = "doc"
    /\ passes = 1
    /\ doc = 1
    /\ catalogo = [n \in Procs |-> [classe |-> 7, ativo |-> 0]]
    /\ pool = << >>
    /\ filial_n = 2
    /\ filiais_inexistentes = {}
    /\ found = [st \in Strategies |-> {}]
    /\ first_page = [n \in Filiais |-> "none"]
    /\ fil_calls = [n \in Filiais |-> 0]
    /\ selecionados = << >>
    /\ meta = "none"
    /\ enfileirados = << >>
    /\ lim_cat = 0
    /\ lim_root = 0

\* _busca_doc calls self.api.buscar_por_documento: lines 284-290.
BuscaDocCall ==
    /\ spc = "doc" /\ ppc = "idle"
    /\ SearchStart
    /\ busca' = "por_documento"
    /\ UNCHANGED poolVars

\* buscar_por_documento has returned: the loop of lines 291-295 and the return
\* of lines 296-300.
BuscaDocMerges ==
    /\ spc = "doc" /\ ppc = "returned"
    /\ pool' = merge_pool(pool, return_value.processos, por_documento,
                          catalogo)
    /\ found' = [found EXCEPT ![por_documento] =
                     numbers_of(return_value.processos)]
    /\ spc' = "filial"
    /\ UNCHANGED <<passes, doc, catalogo, filial_n, filiais_inexistentes,
                   first_page, fil_calls, selecionados, meta, enfileirados,
                   lim_cat, lim_root>>

\* buscar_por_documento was left by the exception of get(): the except of
\* lines 301-303.
BuscaDocCatches ==
    /\ spc = "doc" /\ ppc = "raised"
    /\ spc' = "filial"
    /\ UNCHANGED <<passes, doc, catalogo, pool, filial_n, filiais_inexistentes,
                   found, first_page, fil_calls, selecionados, meta,
                   enfileirados, lim_cat, lim_root>>

\* ------------------------------------------------------ specifications
vars == <<clientVars, pagerVars, coletaVars, poolVars>>

Init == ClientInit /\ PagerInit /\ ColetaIdle /\ PoolInit

\* One step of one thread inside get().
GetStep(t) ==
    \/ GetEnter(t) /\ UNCHANGED <<pagerVars, coletaVars, poolVars>>
    \/ GateWait(t) /\ UNCHANGED <<pagerVars, coletaVars, poolVars>>
    \/ CountRequest(t) /\ UNCHANGED <<pagerVars, coletaVars, poolVars>>
    \/ Headers(t) /\ UNCHANGED <<pagerVars, coletaVars, poolVars>>
    \/ SendRequest(t) /\ UNCHANGED <<pagerVars, coletaVars, poolVars>>
    \/ Receive(t) /\ UNCHANGED <<pagerVars, coletaVars, poolVars>>
    \/ Stat429(t) /\ UNCHANGED <<pagerVars, coletaVars, poolVars>>
    \/ Clear429(t) /\ UNCHANGED <<pagerVars, coletaVars, poolVars>>
    \/ Sleep429(t) /\ UNCHANGED <<pagerVars, coletaVars, poolVars>>
    \/ Set429(t) /\ UNCHANGED <<pagerVars, coletaVars, poolVars>>
    \/ Stat5xx(t) /\ UNCHANGED <<pagerVars, coletaVars, poolVars>>
    \/ StatConn(t) /\ UNCHANGED <<pagerVars, coletaVars, poolVars>>
    \/ Backoff(t) /\ UNCHANGED <<pagerVars, coletaVars, poolVars>>

Next == \E t \in Threads : GetStep(t)

\* Threads calling get() on one client.
Spec == Init /\ [][Next]_vars

\* A thread inside get() always has a next step that time alone brings about
\* (a sleep ends, requests.get returns within its timeout, the gate wait ends
\* when the event is set or after 120 s), so each thread is weakly fair.
FairSpec == Spec /\ \A t \in Threads : WF_vars(GetStep(t))

PagerNext ==
    \/ SearchStart /\ UNCHANGED <<clientVars, coletaVars, poolVars>>
    \/ PageFromCheckpoint /\ UNCHANGED <<clientVars, coletaVars, poolVars>>
    \/ PageFromApi /\ UNCHANGED <<clientVars, coletaVars, poolVars>>
    \/ PageNot200 /\ UNCHANGED <<clientVars, coletaVars, poolVars>>
    \/ PageGetRaises /\ UNCHANGED <<clientVars, coletaVars, poolVars>>

\* A search and its re-run on the same checkpoint directory.
PagerSpec == Init /\ [][PagerNext]_vars

\* One step of the thread that called executar.
MainStep ==
    \/ ExecutarStart /\ UNCHANGED <<clientVars, pagerVars, poolVars, statVars, flushVars>>
    \/ EntitySelect /\ UNCHANGED <<clientVars, pagerVars, poolVars, flushVars>>
    \/ EnqueueItem /\ UNCHANGED <<clientVars, pagerVars, poolVars, statVars, flushVars>>
    \/ EntityDone /\ UNCHANGED <<clientVars, pagerVars, poolVars, flushVars>>
    \/ EntityRaisesEarly /\ UNCHANGED <<clientVars, pagerVars, poolVars, flushVars>>
    \/ EntityRaisesLate /\ UNCHANGED <<clientVars, pagerVars, poolVars, flushVars>>
    \/ QueueJoin /\ UNCHANGED <<clientVars, pagerVars, poolVars, statVars, flushVars>>
    \/ StopSet /\ UNCHANGED <<clientVars, pagerVars, poolVars, statVars, flushVars>>
    \/ ExecutarEnd /\ UNCHANGED <<clientVars, pagerVars, poolVars, statVars>>

\* One step of one detail-download worker.
WorkerStep(w) ==
    \/ WorkerCheckStop(w) /\ UNCHANGED <<clientVars, pagerVars, poolVars, statVars, flushVars>>
    \/ WorkerTake(w) /\ UNCHANGED <<clientVars, pagerVars, poolVars, statVars, flushVars>>
    \/ WorkerEmpty(w) /\ UNCHANGED <<clientVars, pagerVars, poolVars, statVars, flushVars>>
    \/ WorkerFetch(w) /\ UNCHANGED <<clientVars, pagerVars, poolVars, statVars, flushVars>>
    \/ WorkerAnswer(w) /\ UNCHANGED <<clientVars, pagerVars, poolVars, statVars, flushVars>>
    \/ WorkerMark(w) /\ UNCHANGED <<clientVars, pagerVars, poolVars, statVars, flushVars>>
    \/ WorkerTaskDone(w) /\ UNCHANGED <<clientVars, pagerVars, poolVars, statVars, flushVars>>

ColetaNext ==
    \/ ExecutarStart /\ UNCHANGED <<clientVars, pagerVars, poolVars, statVars, flushVars>>
    \/ EntitySelect /\ UNCHANGED <<clientVars, pagerVars, poolVars, flushVars>>
    \/ EnqueueItem /\ UNCHANGED <<clientVars, pagerVars, poolVars, statVars, flushVars>>
    \/ EntityDone /\ UNCHANGED <<clientVars, pagerVars, poolVars, flushVars>>
    \/ EntityRaisesEarly /\ UNCHANGED <<clientVars, pagerVars, poolVars, flushVars>>
    \/ EntityRaisesLate /\ UNCHANGED <<clientVars, pagerVars, poolVars, flushVars>>
    \/ QueueJoin /\ UNCHANGED <<clientVars, pagerVars, poolVars, statVars, flushVars>>
    \/ StopSet /\ UNCHANGED <<clientVars, pagerVars, poolVars, statVars, flushVars>>
    \/ ExecutarEnd /\ UNCHANGED <<clientVars, pagerVars, poolVars, statVars>>
    \/ PorProcessosStart /\ UNCHANGED <<clientVars, pagerVars, poolVars, statVars, flushVars>>
    \/ PorProcessosSkip /\ UNCHANGED <<clientVars, pagerVars, poolVars, statVars, flushVars>>
    \/ PorProcessosFetch /\ UNCHANGED <<clientVars, pagerVars, poolVars, statVars, flushVars>>
    \/ PorProcessosEnd /\ UNCHANGED <<clientVars, pagerVars, poolVars, statVars>>
    \/ \E w \in Workers : WorkerCheckStop(w) /\ UNCHANGED <<clientVars, pagerVars, poolVars, statVars, flushVars>>
    \/ \E w \in Workers : WorkerTake(w) /\ UNCHANGED <<clientVars, pagerVars, poolVars, statVars, flushVars>>
    \/ \E w \in Workers : WorkerEmpty(w) /\ UNCHANGED <<clientVars, pagerVars, poolVars, statVars, flushVars>>
    \/ \E w \in Workers : WorkerFetch(w) /\ UNCHANGED <<clientVars, pagerVars, poolVars, statVars, flushVars>>
    \/ \E w \in Workers : WorkerAnswer(w) /\ UNCHANGED <<clientVars, pagerVars, poolVars, statVars, flushVars>>
    \/ \E w \in Workers : WorkerMark(w) /\ UNCHANGED <<clientVars, pagerVars, poolVars, statVars, flushVars>>
    \/ \E w \in Workers : WorkerTaskDone(w) /\ UNCHANGED <<clientVars, pagerVars, poolVars, statVars, flushVars>>

PoolNext ==
    \/ IndStart /\ UNCHANGED <<clientVars, pagerVars, coletaVars>>
    \/ Blacklisted /\ UNCHANGED <<clientVars, pagerVars, coletaVars>>
    \/ NotBlacklisted /\ UNCHANGED <<clientVars, pagerVars, coletaVars>>
    \/ BuscaDoc /\ UNCHANGED <<clientVars, pagerVars, coletaVars>>
    \/ FilialSearch /\ UNCHANGED <<clientVars, pagerVars, coletaVars>>
    \/ FilialRaises /\ UNCHANGED <<clientVars, pagerVars, coletaVars>>
    \/ FilialSkip /\ UNCHANGED <<clientVars, pagerVars, coletaVars>>
    \/ FilialEnd /\ UNCHANGED <<clientVars, pagerVars, coletaVars>>
    \/ BuscaNome /\ UNCHANGED <<clientVars, pagerVars, coletaVars>>
    \/ Priorizar /\ UNCHANGED <<clientVars, pagerVars, coletaVars>>
    \/ Enfileira /\ UNCHANGED <<clientVars, pagerVars, coletaVars>>

\* The searches and the selection of two rows of one CNPJ root.
PoolSpec == Init /\ [][PoolNext]_vars

BuscaDocInit == ClientInit /\ PagerInit /\ ColetaIdle /\ RowAtBuscaDoc

BuscaDocNext ==
    \/ BuscaDocCall /\ UNCHANGED <<clientVars, coletaVars>>
    \/ PageFromApi /\ UNCHANGED <<clientVars, coletaVars, poolVars>>
    \/ PageNot200 /\ UNCHANGED <<clientVars, coletaVars, poolVars>>
    \/ PageGetRaises /\ UNCHANGED <<clientVars, coletaVars, poolVars>>
    \/ BuscaDocMerges /\ UNCHANGED <<clientVars, pagerVars, coletaVars>>
    \/ BuscaDocCatches /\ UNCHANGED <<clientVars, pagerVars, coletaVars>>

\* The document search of one row, page by page, and what _busca_doc makes of
\* its outcome.
BuscaDocSpec == BuscaDocInit /\ [][BuscaDocNext]_vars

ColetaRunInit == ClientInit /\ PagerInit /\ ColetaInit /\ PoolInit

\* One run of executar, or of executar_por_processos, with its workers.
ColetaSpec == ColetaRunInit /\ [][ColetaNext]_vars

\* executar about to be called on an output directory with no detail file.
ExecutarInit ==
    /\ ClientInit /\ PagerInit /\ PoolInit
    /\ ColetaConstructed
    /\ mode = "executar"
    /\ files = {}

ExecutarNext ==
    \/ MainStep
    \/ \E w \in Workers : WorkerStep(w)

\* One run of executar with its workers.
ExecutarSpec == ExecutarInit /\ [][ExecutarNext]_vars

\* The calling thread and every worker keep running: each has, wherever it
\* is, a step that time alone brings about (queue.get returns within its 2 s
\* timeout, get() returns or raises, join returns once unfinished_tasks is 0).
ExecutarFairSpec ==
    /\ ExecutarSpec
    /\ WF_vars(MainStep)
    /\ \A w \in Workers : WF_vars(WorkerStep(w))

\* ---------------------------------------------------------------- claims

\* C1: the i-th token selection, in the order the rotation lock is taken, uses
\* token index (i-1) mod K; consecutive selections differ unless K = 1; every
\* counted attempt that reached its headers made exactly one selection, none
\* lost or duplicated.
C1_RoundRobin ==
    /\ \A i \in 1..Len(selected) :
         /\ selected[i] = (i - 1) % NumTokens
         /\ (i > 1 /\ NumTokens > 1) => selected[i] # selected[i - 1]
    /\ Len(selected) = token_idx
    /\ Len(selected) =
         stats.requests - Cardinality({t \in Threads : pc[t] = "headers"})

\* The rotation has wrapped around and every thread holds a token for a
\* request it is sending or has sent.
C1_Witness ==
    /\ Len(selected) > NumTokens
    /\ \A t \in Threads : pc[t] \in {"send", "inflight"}

\* C2: a get() that met R retry-triggering outcomes and then a returnable
\* response has raised the retry counter by exactly R (on a client no other
\* thread has used: the counter equals R).
C2_RetryCounterIsR ==
    \A t \in Threads :
        (pc[t] = "returned" /\ \A u \in Threads \ {t} : pc[u] = "idle")
            => stats.retries = attempt[t]

\* C3: whenever the gate is open, no thread is inside the back-off sleep of a
\* 429 it observed.
C3_OpenOnlyAfterSleep ==
    global_429_lock => \A t \in Threads : pc[t] # "sleep429"

\* C4: a request goes out while the gate is closed only from a thread whose
\* gate wait timed out.
C4_NoRequestWhileClosed ==
    [][\A t \in Threads :
          (pc[t] = "send" /\ pc'[t] = "inflight" /\ ~global_429_lock)
              => timedOut[t]]_vars

\* C5: every closing of the gate is followed by a state in which it is open,
\* and every thread waiting on the gate goes on to send its request.
C5_GateReopens ==
    /\ (~global_429_lock) ~> global_429_lock
    /\ \A t \in Threads : (pc[t] = "wait") ~> (pc[t] = "inflight")

\* The gate is closed and another thread is waiting on it.
C5_Witness ==
    /\ ~global_429_lock
    /\ \E t, u \in Threads : pc[t] = "sleep429" /\ pc[u] = "wait"

\* C6: a get() whose attempts all ended in a 429, a 5xx or a connection
\* failure has made max_retries requests and fails with an error carrying the
\* cause of the last failure, that of attempt max_retries.
C6_ExhaustedCarriesLastCause ==
    \A t \in Threads :
        pc[t] = "failed" =>
            /\ attempt[t] = max_retries
            /\ (\A u \in Threads \ {t} : pc[u] = "idle")
                   => stats.requests = max_retries
            /\ last_exc[t] = max_retries

\* C7: a response whose status is none of 429, 500, 502, 503, 504 is returned
\* on the attempt that received it, in the step that receives it and with no
\* counter or gate changed; the call then does nothing more.
C7_OtherStatusReturned ==
    [][\A t \in Threads :
          /\ (pc[t] = "inflight" /\ pc'[t] # "inflight"
                /\ resp'[t] \notin {0, 429, 500, 502, 503, 504})
                 => /\ pc'[t] = "returned"
                    /\ attempt'[t] = attempt[t]
                    /\ stats' = stats
                    /\ global_429_lock' = global_429_lock
          /\ pc[t] = "returned"
                 => /\ pc'[t] = "returned"
                    /\ resp'[t] = resp[t]
                    /\ attempt'[t] = attempt[t]]_vars

\* A get() has returned a 400 on its last attempt, after retries.
C7_Witness ==
    \E t \in Threads :
        pc[t] = "returned" /\ resp[t] = 400 /\ attempt[t] = max_retries - 1

\* C8: in a search started with pages 1..P checkpointed, no request is made
\* for a page in 1..P, each such page the search has gone through is held in
\* memory as the search that wrote its checkpoint held it, and the first
\* request, if any, is for page P+1.
C8_RerunUsesCheckpoints ==
    /\ \A k \in 1..resume_from :
         /\ \A i \in 1..Len(requested) : requested[i] # k
         /\ k < pagina => (held[k] = orig[k] /\ held[k] # NoData)
    /\ requested # << >> => requested[1] = resume_from + 1

\* The re-run has loaded pages 1 and 2 from their checkpoints and requested
\* page 3.
C8_Witness ==
    prun = 2 /\ resume_from = 2 /\ requested = <<3>> /\ held[3] # NoData

\* C9: once the endpoint has answered not-found for a process number, no
\* further detail request for that number is sent in the run.
C9_NoRequestAfter404 ==
    [][\A n \in Procs :
          n \in answered_404 => det_requests'[n] = det_requests[n]]_vars

\* C10: only a 404 answer puts a number in the not-found set.
C10_Only404Marked ==
    processos_404 \subseteq answered_404

\* C11: while one row is processed its pool has one entry per process number;
\* an entry stays where it is and its origin set only grows; once the
\* strategies have run, the pool holds the numbers their results contained and
\* each entry's origin set is the set of strategies whose result held it.
C11_PoolMerges ==
    /\ [](\A i, j \in 1..Len(pool) : i # j => pool[i].np # pool[j].np)
    /\ [][passes' = passes =>
            \A i \in 1..Len(pool) :
                /\ i <= Len(pool')
                /\ pool'[i].np = pool[i].np
                /\ pool[i].origens \subseteq pool'[i].origens]_vars
    /\ [](spc \in {"priorizar", "done"} =>
            /\ { pool[i].np : i \in 1..Len(pool) }
                   = UNION { found[st] : st \in Strategies }
            /\ \A i \in 1..Len(pool) :
                   pool[i].origens
                       = { st \in Strategies : pool[i].np \in found[st] })

\* The three strategies have run, two numbers are pooled and one of them was
\* found by all three.
C11_Witness ==
    /\ spc = "done"
    /\ Len(pool) = 2
    /\ \E i \in 1..Len(pool) : pool[i].origens = Strategies

\* C12, as claimed: the final selection holds no number twice, only numbers
\* of the pool, and lists them in the relative order of their first discovery
\* in the pool.
C12_SelectionInDiscoveryOrder ==
    spc = "done" =>
        /\ \A i, j \in 1..Len(selecionados) :
               i # j => selecionados[i] # selecionados[j]
        /\ \A i \in 1..Len(selecionados) : has_key(pool, selecionados[i])
        /\ \A i, j \in 1..Len(selecionados) :
               (i < j /\ has_key(pool, selecionados[i])
                      /\ has_key(pool, selecionados[j])) =>
                   (CHOOSE k \in 1..Len(pool) : pool[k].np = selecionados[i])
                     < (CHOOSE k \in 1..Len(pool) : pool[k].np = selecionados[j])

\* C12, amended: the final selection holds no number twice, only numbers of
\* the pool, lists execucao-fiscal numbers before polo-ativo numbers before
\* the others, and within one tier lists them in the relative order of their
\* first discovery in the pool.
C12_SelectionInTierOrder ==
    spc = "done" =>
        /\ \A i, j \in 1..Len(selecionados) :
               i # j => selecionados[i] # selecionados[j]
        /\ \A i \in 1..Len(selecionados) : has_key(pool, selecionados[i])
        /\ \A i, j \in 1..Len(selecionados) :
               (i < j /\ has_key(pool, selecionados[i])
                      /\ has_key(pool, selecionados[j])) =>
                   LET ki == CHOOSE k \in 1..Len(pool) :
                                 pool[k].np = selecionados[i]
                       kj == CHOOSE k \in 1..Len(pool) :
                                 pool[k].np = selecionados[j]
                       ti == tier_of(pool[ki].item, doc)
                       tj == tier_of(pool[kj].item, doc)
                   IN  /\ ti = tj => ki < kj
                       /\ tj = "ef" => ti = "ef"
                       /\ tj = "pa" => ti \in {"ef", "pa"}

\* Two numbers of one tier are selected, out of a pool filled by more than
\* one strategy.
C12_Witness ==
    /\ spc = "done"
    /\ Len(selecionados) = 2
    /\ tier_of(pool[1].item, doc) = tier_of(pool[2].item, doc)
    /\ pool[1].origens # pool[2].origens

\* C17: a branch is in the nonexistent set only if the first page of its
\* search came back and held no item, and no search is issued for a branch
\* that is in the set.
C17_OnlyEmptyBranchMarked ==
    [][/\ \A n \in filiais_inexistentes' : first_page'[n] = "empty"
       /\ \A n \in Filiais :
              n \in filiais_inexistentes => fil_calls'[n] = fil_calls[n]]_vars

\* C13: the page count a document search reports is the number of pages it
\* went through (those it holds, and the one whose request was refused if it
\* ended so), and the result holds all the items of the pages held.
C13_PageCountIsPagesGoneThrough ==
    (ppc = "returned" /\ busca = "por_documento") =>
        /\ all_items = pages_content(held, max_paginas)
        /\ paginas = Cardinality({ k \in PageIdx : held[k] # NoData })
                       + (IF page_status \notin {0, 200} THEN 1 ELSE 0)

\* C14: a paginated search asks for at most max_paginas pages; while it runs,
\* no page before the one it is at had a non-200 answer, an empty content,
\* the cap reached or no cursor; once it has ended it asks for no page.
C14_StopsAtFirstEndingPage ==
    /\ [](/\ Len(requested) <= max_paginas
          /\ \A i \in 1..Len(requested) : requested[i] <= max_paginas
          /\ ppc = "loop" => (pagina <= max_paginas /\ page_status \in {0, 200})
          /\ \A k \in PageIdx :
                 k < pagina =>
                     /\ held[k].content # << >>
                     /\ Len(pages_content(held, k)) < max_processos
                     /\ extract_search_after(held[k]) # 0)
    /\ [][(ppc # "loop" /\ prun' = prun) =>
             (requested' = requested /\ held' = held /\ ppc' = ppc)]_vars

\* A name-field search ended on its second page, where the cap was reached.
C14_Witness ==
    /\ ppc = "returned" /\ busca = "por_nome"
    /\ pagina = 2
    /\ Len(all_items) >= max_processos
    /\ extract_search_after(held[2]) # 0

\* C15: a document search ended by a non-200 answer made that request last,
\* returns the items of the earlier pages, and returns a dict that differs
\* from the one a complete search (ended by an empty page) returns.
C15_PartialResultFlagged ==
    (ppc = "returned" /\ busca = "por_documento"
        /\ page_status \notin {0, 200}) =>
        /\ requested[Len(requested)] = pagina
        /\ all_items = pages_content(held, max_paginas)
        /\ \A total \in Totals :
               return_value # return_value_on_empty_page(total)

\* C16: the checkpoint file of a page changes only on a 200 answer for that
\* page whose content is not empty.
C16_CheckpointOnlyNonEmpty ==
    [][\A k \in PageIdx :
          disk'[k] # disk[k] =>
              (page_status' = 200 /\ held'[k].content # << >>)]_vars

\* C18: the stop signal is set only once every item put in the queue has been
\* taken and acknowledged by a worker; a worker leaves its loop only then; and
\* the workers are joined only after the stop signal is set.
C18_StopAfterQueueDrained ==
    /\ stop => /\ queue = << >>
               /\ unfinished = 0
               /\ \A w \in Workers : witem[w] = NoItem
    /\ \A w \in Workers : wpc[w] = "exited" => (stop /\ unfinished = 0)
    /\ mpc \in {"join_workers", "done"} => stop

\* The stop signal is set after the workers downloaded two details, a worker
\* has left its loop and the calling thread is joining the workers.
C18_Witness ==
    /\ stop /\ mpc = "join_workers"
    /\ cache_processos = Procs
    /\ \E w \in Workers : wpc[w] = "exited"

\* C19: a run of executar finishes, with the queue drained, whatever rows
\* raise and whatever the detail fetches meet.
C19_ExecutarFinishes ==
    (mpc = "start") ~> (mpc = "done" /\ queue = << >> /\ unfinished = 0)

\* executar has returned after a row raised with items already queued and a
\* detail fetch failed.
C19_Witness ==
    /\ mpc = "done"
    /\ erros > 0
    /\ processos_404 # {}
    /\ cache_processos # {}

\* C20: when a row raises, the error counter grows by one, the loop goes on to
\* the next row (the processed counter grows by one), and nothing was recorded
\* as found for the row; at the end the processed counter is the number of rows.
C20_FailingEntityIsolated ==
    [][/\ erros' # erros =>
            /\ erros' = erros + 1
            /\ processados' = processados + 1
            /\ ent' = ent + 1
            /\ mpc' \in {"entity", "join"}
            /\ unicos = 0
       /\ mpc' = "done" => processados' = NumEntities]_vars

C22_TiersPartitionPool ==
    LET t == priorizar_processos(pool, doc)
        Range(seq) == { seq[i] : i \in 1..Len(seq) }
    IN  /\ \A i \in 1..Len(pool) :
               LET np_val == pool[i].np
                   high == pool[i].item.classe = 1116
                   claimant == doc # 0 /\ pool[i].item.ativo = doc
               IN  /\ np_val \in Range(t.ef) <=> high
                   /\ np_val \in Range(t.pa) <=> (~high /\ claimant)
                   /\ np_val \in Range(t.ou) <=> (~high /\ ~claimant)
        /\ Range(t.ef) \cap Range(t.pa) = {}
        /\ Range(t.ef) \cap Range(t.ou) = {}
        /\ Range(t.pa) \cap Range(t.ou) = {}
        /\ Range(t.ef) \cup Range(t.pa) \cup Range(t.ou)
               = { pool[i].np : i \in 1..Len(pool) }

\* The selection was made from a pool of two numbers that both have the row's
\* document on the active pole, one of them of class 1116.
C22_Witness ==
    /\ spc = "enfileira" /\ doc = 1
    /\ Len(pool) = 2
    /\ pool[1].item.ativo = 1 /\ pool[1].item.classe = 7
    /\ pool[2].item.ativo = 1 /\ pool[2].item.classe = 1116
    /\ selecionados = <<pool[2].np, pool[1].np>>

\* C23: when _aplicar_limites has run, the selection is the concatenation, in
\* tier order, of the first lim_cat numbers of each of the three lists of
\* priorizar_processos, cut to its first lim_root numbers (a cap that is not
\* positive cuts nothing); with both caps positive it holds at most
\* min(lim_root, 3 * lim_cat) numbers, and with a positive lim_cat no list
\* gives more than lim_cat of them.
C23_SelectionIsCappedConcatenation ==
    spc = "enfileira" =>
        LET t == priorizar_processos(pool, doc)
            first(seq, n) ==
                IF n > 0 /\ n < Len(seq) THEN SubSeq(seq, 1, n) ELSE seq
            from(seq) ==
                Cardinality({ i \in 1..Len(selecionados) :
                                \E j \in 1..Len(seq) : seq[j] = selecionados[i] })
        IN  /\ selecionados
                   = first(first(t.ef, lim_cat) \o first(t.pa, lim_cat)
                               \o first(t.ou, lim_cat),
                           lim_root)
            /\ (lim_cat > 0 /\ lim_root > 0) =>
                   /\ Len(selecionados) <= lim_root
                   /\ Len(selecionados) <= 3 * lim_cat
            /\ lim_cat > 0 =>
                   /\ from(t.ef) <= lim_cat
                   /\ from(t.pa) <= lim_cat
                   /\ from(t.ou) <= lim_cat

\* With a cap of one per list and of two per row, two numbers of the same
\* list are pooled and only the first discovered is selected.
C23_Witness ==
    /\ spc = "enfileira"
    /\ lim_cat = 1 /\ lim_root = 2
    /\ Len(pool) = 2
    /\ tier_of(pool[1].item, doc) = tier_of(pool[2].item, doc)
    /\ selecionados = <<pool[1].np>>

\* C24: no step of the calling thread or of a worker takes a number out of the
\* not-found set: a number that is in it stays in it for the rest of the run.
C24_NotFoundSetGrows ==
    [][processos_404 \subseteq processos_404']_vars

\* Two workers each put a number in the not-found set.
C24_Witness ==
    /\ mode = "executar"
    /\ processos_404 = Procs
    /\ \E w \in Workers : wpc[w] = "ack" /\ ~wdata[w]

\* C25: a search requests pages in increasing index order, and when it
\* requests a page after the first, the checkpoint file of the page before is
\* on disk.
C25_NextPageAfterCheckpoint ==
    /\ [](\A i, j \in 1..Len(requested) :
              i < j => requested[i] < requested[j])
    /\ [][Len(requested') = Len(requested) + 1 =>
             LET k == requested'[Len(requested')]
             IN  k > 1 => disk[k - 1] # << >>]_vars

\* C26: the item a pool entry holds is the one delivered by the last of the
\* strategies that found its number (the strategies run in the order
\* document, branches, name).
C26_PoolHoldsLatestItem ==
    LET rank(st) == IF st = por_documento THEN 0
                    ELSE IF st = por_nome THEN max_filiais + 2
                    ELSE st[2]
    IN  \A i \in 1..Len(pool) :
            \A st \in pool[i].origens : rank(st) <= rank(pool[i].item.de)

\* C27: when a document search was ended by get() giving up on a page after
\* the first, every number of the pages it had fetched is in the pool once
\* _busca_doc is over.
C27_FetchedPagesSurviveFailure ==
    (spc = "filial" /\ ppc = "raised" /\ pagina > 1) =>
        \A n \in numbers_of(pages_content(held, pagina - 1)) : has_key(pool, n)

\* C28: when save_all runs at the end of executar no worker holds an item (so
\* none is at or before a cache write), and once executar has returned the
\* dumped not-found set and processed map are the ones in memory: every entry
\* recorded during the run is in them and none is recorded afterwards.
C28_FlushAfterLastCacheWrite ==
    /\ [](mpc = "done" =>
             /\ flushed_404 = processos_404
             /\ flushed_procs = cache_processos
             /\ \A w \in Workers : witem[w] = NoItem)
    /\ [][(mpc = "join_workers" /\ mpc' = "done") =>
             \A w \in Workers :
                 /\ witem[w] = NoItem
                 /\ wpc[w] \in {"idle", "get", "exited"}]_vars

\* executar has returned with both a not-found and a processed entry dumped,
\* one worker not having left its loop yet.
C28_Witness ==
    /\ mpc = "done"
    /\ flushed_404 # {} /\ flushed_procs # {}
    /\ \E w \in Workers : wpc[w] # "exited"

\* C29: an item put on the queue is, until its acknowledgement, either waiting
\* in the queue once or held by exactly one worker: the count of
\* unacknowledged items is the waiting ones plus the held ones, so it never
\* goes below zero (no more acknowledgements than items enqueued); a worker
\* acknowledges once, the item it holds, after its fetch whatever it gave;
\* when executar has returned every item has been taken and acknowledged.
C29_EachItemTakenAndAckedOnce ==
    /\ [](LET holding == {w \in Workers : witem[w] # NoItem}
              queued == {queue[i] : i \in 1..Len(queue)}
          IN  /\ unfinished = Len(queue) + Cardinality(holding)
              /\ unfinished >= 0
              /\ Cardinality(queued) = Len(queue)
              /\ \A w \in holding : witem[w] \notin queued
              /\ \A v, w \in holding : witem[v] = witem[w] => v = w
              /\ mpc = "done" => unfinished = 0 /\ queue = << >>)
    /\ [][unfinished' < unfinished =>
             /\ unfinished' = unfinished - 1
             /\ \E w \in Workers :
                    /\ wpc[w] = "ack" /\ witem[w] # NoItem
                    /\ witem'[w] = NoItem
                    /\ \A v \in Workers \ {w} : witem'[v] = witem[v]]_vars

\* Both workers hold an item at once, for the same process number selected for
\* two rows; one fetch gave data and the other none, and the first is about
\* to acknowledge.
C29_Witness ==
    \E v, w \in Workers :
        /\ v # w
        /\ witem[v] # NoItem /\ witem[w] # NoItem
        /\ witem[v][1] = witem[w][1]
        /\ wpc[v] = "ack" /\ wdata[v]
        /\ wpc[w] = "mark" /\ ~wdata[w]

\* C30: no process number is at once in the not-found set and in the
\* processed map, in any state of a run of executar begun with empty caches.
C30_NotFoundAndProcessedDisjoint ==
    processos_404 \cap cache_processos = {}

====
